---- MODULE Spec2Model ----
(***************************************************************************)
(* sneaky.py: hides a secret text inside carrier text.  A character is a   *)
(* code point (a natural number), a string is a sequence of code points,   *)
(* a bit string is a sequence over {0, 1}.  The module-level generator of  *)
(* `random` is the variable rng; a seed is identified with the stream of   *)
(* raw draws the generator yields once it is seeded with it.               *)
(***************************************************************************)
EXTENDS Integers, Sequences, FiniteSets, TLC

(* ------------------------------ bounds --------------------------------- *)
MaxSecretLen == 1
MaxCarrierLen == 9
MaxMixLen == 2
StreamLen == 3
RawMax == 2

(* ------------------------- input alphabets ----------------------------- *)
\* 'h', the largest 8-bit code point, and the first code point beyond 8 bits
SecretChars == {104, 255, 256}
\* (zero, one): ('z','o') as in example(), pairs whose 'b' is a letter of the
\* carriers and of the synthesizer, and a pair of equal tokens
TokenPairs == {<<122, 111>>, <<98, 111>>, <<111, 98>>, <<122, 122>>}
\* 'a', 'o', 'z'
MixChars == {97, 111, 122}

StringsOver(chars, n) == UNION {[1..k -> chars] : k \in 0..n}

\* the first n letters of "abc...xyzabc..."
Prefix(n) == [i \in 1..n |-> 97 + ((i - 1) % 26)]

Secrets == StringsOver(SecretChars, MaxSecretLen)
\* the secrets and token pairs given to hide_random
RandomSecrets == StringsOver({104, 256}, MaxSecretLen)
RandomPairs == {<<122, 111>>, <<111, 97>>}
Carriers == {Prefix(n) : n \in 0..MaxCarrierLen}
MixTexts == StringsOver(MixChars, MaxMixLen)
Seeds == [1..StreamLen -> 0..(RawMax - 1)]
\* a seed different from s
OtherSeed(s) == [i \in 1..StreamLen |-> (s[i] + 1) % RawMax]

(* --------------------------- the generator ----------------------------- *)
None == -1

random_seed_skipped(g, seed) == g

\* random.seed(seed): the generator restarts the stream of the seed
random_seed(g, seed) == [stream |-> seed, pos |-> 1]

\* random.randint(lo, hi): one raw draw, scaled onto lo..hi so that the
\* smallest raw value gives lo and the largest gives hi
randint(g, lo, hi) ==
    [value |-> lo + ((g.stream[g.pos] * (hi - lo)) \div (RawMax - 1)),
     rng   |-> [g EXCEPT !.pos = (g.pos % StreamLen) + 1]]

(* ------------------------------ BitCodec ------------------------------- *)
RECURSIVE bin(_)
\* bin(n)[2:] : the binary digits of n without leading zeros
bin(n) == IF n < 2 THEN <<n>> ELSE bin(n \div 2) \o <<n % 2>>

\* str.rjust(width, '0'): pads on the left, never truncates
rjust(s, width) ==
    IF Len(s) >= width THEN s ELSE [i \in 1..(width - Len(s)) |-> 0] \o s

char_to_bits(char) == rjust(bin(char), 8)

RECURSIVE int2(_)
\* int(bits, 2) of a non-empty digit string
int2(bits) ==
    IF Len(bits) = 0 THEN 0
    ELSE 2 * int2(SubSeq(bits, 1, Len(bits) - 1)) + bits[Len(bits)]

RECURSIVE int2_lsb_first(_)
int2_lsb_first(bits) ==
    IF Len(bits) = 0 THEN 0 ELSE bits[1] + 2 * int2_lsb_first(Tail(bits))

bits_to_char_lsb_first(bits) == int2_lsb_first(bits)

\* chr(int(bits, 2))
bits_to_char(bits) == int2(bits)

RECURSIVE string_to_bits(_)
string_to_bits(text) ==
    IF Len(text) = 0 THEN <<>>
    ELSE char_to_bits(Head(text)) \o string_to_bits(Tail(text))

Min(x, y) == IF x < y THEN x ELSE y

\* one char per slice text[i:i+8], i = 0, 8, 16, ...; the last slice may be short
bits_to_string(text) ==
    [k \in 1..((Len(text) + 7) \div 8) |->
        bits_to_char(SubSeq(text, 8 * (k - 1) + 1, Min(8 * k, Len(text))))]

(* ------------------------------ Obfuscator ----------------------------- *)
RECURSIVE bits_to_tokens(_, _, _)
\* ''.join(map(lambda c: [zero, one][int(c)], text))
bits_to_tokens(bits, zero, one) ==
    IF Len(bits) = 0 THEN <<>>
    ELSE <<IF Head(bits) = 0 THEN zero ELSE one>>
             \o bits_to_tokens(Tail(bits), zero, one)

binary_obfuscation(text, zero, one) ==
    bits_to_tokens(string_to_bits(text), zero, one)

\* {zero: '0', one: '1'}[c]: the later key wins when zero = one
binary_deobfuscation(secret, zero, one) ==
    IF \E i \in 1..Len(secret) : secret[i] \notin {zero, one}
    THEN [status |-> "KeyError", out |-> <<>>]
    ELSE [status |-> "ok",
          out |-> bits_to_string([i \in 1..Len(secret) |->
                                     IF secret[i] = one THEN 1 ELSE 0])]

RECURSIVE binary_extract(_, _, _)
\* filter(lambda c: c in [zero, one], text)
binary_extract(text, zero, one) ==
    IF Len(text) = 0 THEN <<>>
    ELSE IF Head(text) \in {zero, one}
         THEN <<Head(text)>> \o binary_extract(Tail(text), zero, one)
         ELSE binary_extract(Tail(text), zero, one)

(* --------------------------- CarrierSynthesizer ------------------------ *)
start_range == 97
end_range == 122

RECURSIVE random_char_loop(_, _, _, _)
\* while char in [ord(zero), ord(one)]: draw again.  A generator whose whole
\* cycle yields excluded characters keeps the loop spinning ("hang").
random_char_loop(zero, one, d, tries) ==
    IF d.value \notin {zero, one}
    THEN [status |-> "ok", char |-> d.value, rng |-> d.rng]
    ELSE IF tries >= StreamLen
         THEN [status |-> "hang", char |-> None, rng |-> d.rng]
         ELSE random_char_loop(zero, one,
                               randint(d.rng, start_range, end_range), tries + 1)

random_char(zero, one, g) ==
    random_char_loop(zero, one, randint(g, start_range, end_range), 1)

RECURSIVE random_data(_, _, _, _, _), random_data_next(_, _, _, _, _)
\* ''.join([random_char(zero, one) for i in range(n)])
random_data(n, zero, one, g, acc) ==
    IF n = 0 THEN [status |-> "ok", data |-> acc, rng |-> g]
    ELSE random_data_next(n, zero, one, random_char(zero, one, g), acc)

\* the list grows by the character c drawn, unless the draw never ended
random_data_next(n, zero, one, c, acc) ==
    IF c.status # "ok"
    THEN [status |-> c.status, data |-> acc, rng |-> c.rng]
    ELSE random_data(n - 1, zero, one, c.rng, Append(acc, c.char))

(* ------------------------------- Mixer --------------------------------- *)
MixRaise(error, g) ==
    [status |-> error, out |-> <<>>, rng |-> g, short |-> <<>>, long |-> <<>>,
     space |-> 0, rest |-> 0, skip |-> 0, positions |-> <<>>]

RECURSIVE none_list(_)
\* [None] * n
none_list(n) == IF n = 0 THEN <<>> ELSE Append(none_list(n - 1), None)

offset_draw_wide(g, space) == randint(g, 0, space)

\* random.randint(0, space - 1)
offset_draw(g, space) == randint(g, 0, space - 1)

place_source_reversed(text_a, i, space) == (Len(text_a) - 1) - (i \div space)

\* text_a[i / space]: the index of the element placed in the block at i
place_source(text_a, i, space) == i \div space

RECURSIVE place_loop(_, _, _, _, _, _)
\* for i in range(0, len_output - rest, space):
\*     output[skip + i + random.randint(0, space - 1)] = text_a[i / space]
place_loop(text_a, space, skip, stop, i, st) ==
    IF i >= stop THEN st
    ELSE LET src == place_source(text_a, i, space)
         IN  IF src < 0 \/ src >= Len(text_a)
             THEN [st EXCEPT !.status = "IndexError"]
             ELSE LET d   == offset_draw(st.rng, space)
                      pos == skip + i + d.value
                  IN  IF pos >= Len(st.output)
                      THEN [st EXCEPT !.status = "IndexError", !.rng = d.rng]
                      ELSE place_loop(text_a, space, skip, stop, i + space,
                               [st EXCEPT !.output[pos + 1] = text_a[src + 1],
                                          !.positions = Append(@, pos),
                                          !.rng = d.rng])

fill_source_reversed(text_b, j) == (Len(text_b) - 1) - j

\* text_b[j]
fill_source(text_b, j) == j

RECURSIVE fill_loop(_, _, _, _)
\* for i in range(0, len_output): if output[i] is None: output[i] = text_b[j]; j += 1
fill_loop(text_b, i, j, output) ==
    IF i >= Len(output) THEN [status |-> "ok", output |-> output]
    ELSE IF output[i + 1] = None
         THEN LET src == fill_source(text_b, j)
              IN  IF src < 0 \/ src >= Len(text_b)
                  THEN [status |-> "IndexError", output |-> output]
                  ELSE fill_loop(text_b, i + 1, j + 1,
                                 [output EXCEPT ![i + 1] = text_b[src + 1]])
         ELSE fill_loop(text_b, i + 1, j, output)

\* return ''.join(output), or the exception that ended the call
mix_return(a, b, space, rest, skip, placed, filled) ==
    IF placed.status # "ok" THEN MixRaise(placed.status, placed.rng)
    ELSE IF filled.status # "ok" THEN MixRaise(filled.status, placed.rng)
         ELSE [status |-> "ok", out |-> filled.output, rng |-> placed.rng,
               short |-> a, long |-> b, space |-> space, rest |-> rest,
               skip |-> skip, positions |-> placed.positions]

\* the second loop, run on the output list the first loop left
mix_fill(a, b, space, rest, skip, placed) ==
    mix_return(a, b, space, rest, skip, placed,
               IF placed.status = "ok" THEN fill_loop(b, 0, 0, placed.output)
               ELSE placed)

\* skip = random.randint(0, rest), then the first loop
mix_place(a, b, space, rest, d) ==
    mix_fill(a, b, space, rest, d.value,
             place_loop(a, space, d.value, Len(a) + Len(b) - rest, 0,
                        [status |-> "ok", output |-> none_list(Len(a) + Len(b)),
                         rng |-> d.rng, positions |-> <<>>]))

mix(text_a, text_b, seed, g) ==
    LET swap  == Len(text_a) > Len(text_b)
        a     == IF swap THEN text_b ELSE text_a
        b     == IF swap THEN text_a ELSE text_b
        g0    == random_seed(g, seed)
        len_text_a == Len(a)
        len_text_b == Len(b)
        len_output == len_text_a + len_text_b
    IN  IF len_text_a = 0 THEN MixRaise("ZeroDivisionError", g0)
        ELSE LET space == len_output \div len_text_a
                 rest  == len_output % len_text_a
             IN  mix_place(a, b, space, rest, randint(g0, 0, rest))

(* ----------------------------- Orchestrator ---------------------------- *)
hide(secret, data, zero, one, seed, g) ==
    mix(binary_obfuscation(secret, zero, one), data, seed, g)

carrier_length_per_bit(secret) == Len(secret) * 8

\* range(len(secret) * 16)
carrier_length(secret) == Len(secret) * 16

\* return hide(secret, data, zero, one, mix_seed), r the synthesized data
hide_synthesized(secret, zero, one, mix_seed, r) ==
    IF r.status # "ok"
    THEN [call |-> MixRaise(r.status, r.rng), data |-> r.data]
    ELSE [call |-> hide(secret, r.data, zero, one, mix_seed, r.rng),
          data |-> r.data]

hide_random(secret, zero, one, data_seed, mix_seed, g) ==
    hide_synthesized(secret, zero, one, mix_seed,
        random_data(carrier_length(secret), zero, one,
                    random_seed(g, data_seed), <<>>))

reveal(data, zero, one) ==
    binary_deobfuscation(binary_extract(data, zero, one), zero, one)

(* ------------------------------- state --------------------------------- *)
VARIABLES
    secret, data, zero, one, seed, data_seed,  \* arguments of hide / hide_random
    text_a, text_b,                            \* arguments of a direct mix call
    rng,                                       \* the module-level generator
    mixed,                                     \* the last mix call, with its locals
    hide_out, prev_hide,                       \* results of the last two hide calls
    random_out, prev_random,                   \* results of the last two hide_random calls
    revealed                                   \* reveal of the text hide returned

inputs  == <<secret, data, zero, one, seed, data_seed, text_a, text_b>>
results == <<mixed, hide_out, prev_hide, random_out, prev_random, revealed>>
vars    == <<inputs, rng, results>>

NotCalled == [status |-> "none", out |-> <<>>]
NotCalledOn == [status |-> "none", out |-> <<>>, data |-> <<>>]

\* what a call hands back: a text, or the error it raised
Returned(m) == [status |-> m.status, out |-> m.out]

\* the frame of a mix call: its result and the locals of the placement
Frame(m) ==
    [status |-> m.status, out |-> m.out, short |-> m.short, long |-> m.long,
     space |-> m.space, rest |-> m.rest, skip |-> m.skip, positions |-> m.positions]

\* the generator is seeded by the runtime when `random` is imported, with a
\* value unrelated to the seeds the calls pass
ImportStates(s) == {[stream |-> OtherSeed(s), pos |-> 1]}

NoResults ==
    /\ mixed = NotCalled
    /\ hide_out = NotCalled /\ prev_hide = NotCalled
    /\ random_out = NotCalledOn /\ prev_random = NotCalledOn
    /\ revealed = NotCalledOn

\* hide and reveal on a caller-supplied carrier
Init ==
    /\ secret \in Secrets
    /\ data \in Carriers
    /\ \E p \in TokenPairs : zero = p[1] /\ one = p[2]
    /\ seed \in Seeds /\ data_seed = seed
    /\ text_a = <<>> /\ text_b = <<>>
    /\ rng \in ImportStates(seed)
    /\ NoResults

\* direct calls of mix
InitMix ==
    /\ text_a \in MixTexts \cup Carriers
    /\ text_b \in MixTexts \cup Carriers
    /\ zero = 122 /\ one = 111
    /\ seed \in Seeds /\ data_seed = seed
    /\ secret = <<>> /\ data = <<>>
    /\ rng \in ImportStates(seed)
    /\ NoResults

\* hide_random, interleaved with hide and with mix under another seed
InitRandom ==
    /\ secret \in RandomSecrets
    /\ \E p \in RandomPairs : zero = p[1] /\ one = p[2]
    /\ seed \in Seeds /\ data_seed \in {seed, OtherSeed(seed)}
    /\ data = Prefix(MaxMixLen)
    /\ text_a = <<zero>> /\ text_b = data
    /\ rng \in ImportStates(seed)
    /\ NoResults

(* ------------------------------ operations ----------------------------- *)
CallMixWith(s) ==
    \E m \in {mix(text_a, text_b, s, rng)} :
        /\ mixed' = Frame(m)
        /\ rng' = m.rng
        /\ UNCHANGED <<inputs, hide_out, prev_hide, random_out, prev_random, revealed>>

CallMix == CallMixWith(seed)

OtherCallMix == CallMixWith(OtherSeed(seed))

CallHide ==
    \E m \in {hide(secret, data, zero, one, seed, rng)} :
        /\ hide_out' = Returned(m)
        /\ prev_hide' = hide_out
        /\ rng' = m.rng
        /\ UNCHANGED <<inputs, mixed, random_out, prev_random, revealed>>

CallHideRandom ==
    \E r \in {hide_random(secret, zero, one, data_seed, seed, rng)} :
    LET o == [status |-> r.call.status, out |-> r.call.out, data |-> r.data]
    IN  /\ random_out' = o
        /\ prev_random' = random_out
        /\ rng' = r.call.rng
        /\ UNCHANGED <<inputs, mixed, hide_out, prev_hide, revealed>>

CallReveal ==
    /\ hide_out.status = "ok"
    /\ \E r \in {reveal(hide_out.out, zero, one)} :
           revealed' = [status |-> r.status, out |-> r.out, data |-> hide_out.out]
    /\ UNCHANGED <<inputs, rng, mixed, hide_out, prev_hide, random_out,
                   prev_random>>

Next == CallHide \/ CallReveal
NextMix == CallMix
NextRandom == CallHideRandom \/ CallHide \/ OtherCallMix

Spec == Init /\ [][Next]_vars
SpecMix == InitMix /\ [][NextMix]_vars
SpecRandom == InitRandom /\ [][NextRandom]_vars

(* ------------------------------ properties ----------------------------- *)
EightBit(text) == \A i \in 1..Len(text) : text[i] \in 0..255
OnlyTokens(text) == \A i \in 1..Len(text) : text[i] \in {zero, one}
NoTokens(text) == \A i \in 1..Len(text) : text[i] \notin {zero, one}

\* the output of a mix call with the placed elements of the shorter text deleted
Unplaced(m) ==
    LET gaps   == {i \in 1..Len(m.out) :
                      \A k \in 1..Len(m.positions) : m.positions[k] # i - 1}
        nth(k) == CHOOSE i \in gaps : Cardinality({j \in gaps : j < i}) = k - 1
    IN  [k \in 1..Cardinality(gaps) |-> m.out[nth(k)]]

RoundTripCase ==
    /\ secret # <<>> /\ EightBit(secret)
    /\ zero # one
    /\ data # <<>> /\ NoTokens(data)

\* C1: for a non-empty 8-bit secret, distinct tokens and a non-empty carrier
\* free of tokens, hide returns a text and reveal of that text is the secret,
\* whatever the seed and whichever of token string and carrier is longer.
C1_RoundTrip ==
    RoundTripCase =>
        /\ hide_out.status # "none" => hide_out.status = "ok"
        /\ revealed.status # "none" =>
               /\ revealed.data = hide_out.out
               /\ revealed.status = "ok"
               /\ revealed.out = secret

\* a secret revealed from a carrier shorter than its token string (mix swapped)
C1_Witness ==
    /\ RoundTripCase
    /\ revealed.status = "ok" /\ revealed.out = secret
    /\ Len(data) < 8 * Len(secret)

\* C2: whenever mix(T, C, seed) returns for a token string T and a carrier C
\* free of tokens, binary_extract of the output is exactly T.
C2_TokenOrder ==
    (mixed.status = "ok" /\ OnlyTokens(text_a) /\ NoTokens(text_b)) =>
        binary_extract(mixed.out, zero, one) = text_a

\* a mixed token string with two different tokens inside a carrier
C2_Witness ==
    /\ mixed.status = "ok" /\ OnlyTokens(text_a) /\ NoTokens(text_b)
    /\ Len(text_a) >= 2 /\ text_a[1] # text_a[2]
    /\ Len(text_b) >= Len(text_a)
    /\ binary_extract(mixed.out, zero, one) = text_a

\* C3: whenever mix returns, the output positions not given to the shorter
\* text hold the longer text, in order, each element once.
C3_CarrierOrder ==
    mixed.status = "ok" =>
        /\ mixed.long = IF Len(text_a) > Len(text_b) THEN text_a ELSE text_b
        /\ Unplaced(mixed) = mixed.long

\* a longer text with different elements around the placed ones
C3_Witness ==
    /\ mixed.status = "ok"
    /\ Len(mixed.long) >= 3 /\ mixed.long[1] # mixed.long[2]
    /\ Len(mixed.positions) >= 2
    /\ mixed.positions[1] > 0
    /\ Unplaced(mixed) = mixed.long

\* C4: hide of the empty secret returns the carrier unchanged, and reveal of
\* that result is the empty string.
C4_EmptySecret ==
    (secret = <<>> /\ hide_out.status # "none") =>
        /\ hide_out.status = "ok"
        /\ hide_out.out = data
        /\ revealed.status # "none" => revealed.out = <<>>

\* C5: every call of mix, for texts of any lengths, returns a text of length
\* len(a) + len(b).
C5_LengthConservation ==
    mixed.status # "none" =>
        /\ mixed.status = "ok"
        /\ Len(mixed.out) = Len(text_a) + Len(text_b)

\* C6: a call of hide (of hide_random) gives what the previous call with the
\* same arguments and seeds gave, whatever state the generator was left in.
C6_Determinism ==
    /\ prev_hide.status # "none" => hide_out = prev_hide
    /\ prev_random.status # "none" => random_out = prev_random

\* hide and hide_random each called again, with a mix call under another seed
\* among the calls
C6_Witness ==
    /\ prev_hide.status = "ok" /\ hide_out = prev_hide
    /\ prev_random.status = "ok" /\ random_out = prev_random
    /\ mixed.status = "ok"
    /\ rng.stream = seed

\* C7: encoding a secret with a code point above 255 fails with an error, so
\* a returned text carries exactly 8 tokens per secret character.
C7_EncodingError ==
    hide_out.status # "none" =>
        /\ ~EightBit(secret) => hide_out.status # "ok"
        /\ (hide_out.status = "ok" /\ zero # one /\ NoTokens(data)) =>
               Len(binary_extract(hide_out.out, zero, one)) = 8 * Len(secret)

\* C8: reveal of a text whose token count is not a multiple of 8 fails with an
\* error.
C8_MalformedInput ==
    (revealed.status # "none"
        /\ Len(binary_extract(revealed.data, zero, one)) % 8 # 0) =>
        revealed.status # "ok"

\* the carrier hide_random synthesized holds only letters other than the tokens
SyntheticLetters ==
    \A i \in 1..Len(random_out.data) :
        /\ random_out.data[i] \in 97..122
        /\ random_out.data[i] \notin {zero, one}

\* C9 as stated: the synthetic carrier has 16 characters per token, so the
\* returned text has 8*len(secret) + 128*len(secret) characters.
C9_CarrierPerToken ==
    random_out.status = "ok" =>
        /\ Len(random_out.data) = 16 * 8 * Len(secret)
        /\ SyntheticLetters
        /\ Len(random_out.out) = 8 * Len(secret) + 128 * Len(secret)

\* C9 amended: the synthetic carrier has 16 characters per secret character,
\* all letters other than the tokens, and a returned text has the token count
\* plus 16*len(secret) characters: 8*len(secret) + 16*len(secret) for an 8-bit
\* secret.
C9_CarrierPerChar ==
    /\ SyntheticLetters
    /\ random_out.status \notin {"none", "hang"} =>
           Len(random_out.data) = 16 * Len(secret)
    /\ random_out.status = "ok" =>
           /\ Len(random_out.out) =
                  Len(binary_obfuscation(secret, zero, one)) + 16 * Len(secret)
           /\ EightBit(secret) =>
                  Len(random_out.out) = 8 * Len(secret) + 16 * Len(secret)

\* a text returned for a non-empty secret when 'z', a letter the synthesizer
\* draws, is a token
C9_Witness ==
    /\ random_out.status = "ok"
    /\ secret # <<>> /\ EightBit(secret)
    /\ zero = 122
    /\ Len(random_out.data) = 16 * Len(secret)
    /\ Len(random_out.out) = 24 * Len(secret)

\* C10: with both texts non-empty mix returns; its block width is at least 2,
\* it places every element of the shorter text, the k-th inside the k-th
\* block, inside the output and right of the one before.
C10_DisjointPlacement ==
    (mixed.status # "none" /\ text_a # <<>> /\ text_b # <<>>) =>
        LET total == Len(text_a) + Len(text_b)
            P     == mixed.positions
        IN  /\ mixed.status = "ok"
            /\ Len(mixed.short) <= Len(mixed.long)
            /\ mixed.space = total \div Len(mixed.short)
            /\ mixed.space >= 2
            /\ Len(P) = Len(mixed.short)
            /\ \A k \in 1..Len(P) :
                   /\ P[k] \in 0..(total - 1)
                   /\ P[k] - mixed.skip - (k - 1) * mixed.space
                          \in 0..(mixed.space - 1)
                   /\ k > 1 => P[k] > P[k - 1]
                   /\ mixed.out[P[k] + 1] = mixed.short[k]

\* a token string longer than the carrier, the carrier placed after a skip
C10_Witness ==
    /\ mixed.status = "ok"
    /\ Len(text_a) > Len(text_b)
    /\ Len(mixed.positions) >= 2
    /\ mixed.skip > 0
    /\ mixed.positions[2] > mixed.positions[1]

====
